---- MODULE Spec2Model ----
(***************************************************************************)
(* Fusion decision engine of smart-video-segmentation:                     *)
(*   SmartSegmenter.analyze             (smart_segmenter.py 33-67)         *)
(*   SmartSegmenter._find_speaker_changes      (69-83)                     *)
(*   SmartSegmenter._process_shot_changes      (85-111)                    *)
(*   SmartSegmenter._has_speaker_change_near   (113-119)                   *)
(*   SmartSegmenter._filter_close_splits       (121-133)                   *)
(*   SmartSegmenter.get_segments_info          (135-148)                   *)
(*                                                                         *)
(* Times, durations and confidences are floats in the source.  They are    *)
(* modelled as integers counting tenths: 1.0 s is 10, confidence 0.9 is 9. *)
(* Private methods keep their names without the leading underscore.        *)
(***************************************************************************)
EXTENDS Integers, Sequences, FiniteSets, TLC

VARIABLES
    min_segment_duration,  \* SmartSegmenter._min_segment_duration
    shot_changes,          \* argument of analyze
    speech_segments,       \* argument of analyze
    speaker_labels,        \* argument of analyze (None or a list of ints)
    video_duration,        \* argument of analyze / get_segments_info
    stage,                 \* position of the caller
    speaker_change_times,  \* local of analyze
    splits,                \* the list handed to _filter_close_splits / get_segments_info
    final_splits,          \* AnalysisResult.final_splits / the filter's return value
    skipped_shots,         \* AnalysisResult.skipped_shots
    refiltered,            \* the filter applied to its own output
    segments_info,         \* return value of get_segments_info
    ppc,                   \* position in VideoPipeline.analyze / split_video
    temp_file,             \* TRUE while extract_audio's temporary wav file exists
    exported,              \* the segments exported by VideoSplitter, in call order
    output_paths,          \* return value of split_video (one entry per path)
    progress,              \* the report(step, total) calls of VideoPipeline.analyze
    stages_done,           \* the stages of VideoPipeline.analyze that have returned
    pending,               \* the analyze calls still to be made on the segmenter
    history,               \* arguments and results of the analyze calls made
    last_split_time,       \* local of _process_shot_changes when it returned
    embeddings,            \* what _extract_embeddings yields (0: the all-zero vector)
    cpc,                   \* position in diarize / _cluster_speakers / _find_optimal_clusters
    next_k,                \* loop variable k of _find_optimal_clusters
    best_score,            \* local of _find_optimal_clusters
    best_labels,           \* local of _find_optimal_clusters (None or a list)
    best_n,                \* local of _find_optimal_clusters
    fit_calls,             \* n_clusters of every fit_predict call made, in order
    fit_of_two,            \* what fit_predict does on these embeddings for n_clusters=2
    last_attempt,          \* outcome of the latest pass through the loop body
    top_candidate,         \* best scored candidate so far: first one with the top score
    gui_video,             \* text of ConfigPanel._video_path ("" when no file is selected)
    panel_enabled,         \* the browse button and the settings of ConfigPanel are enabled
    analyze_btn,           \* MainWindow._analyze_btn is enabled
    export_btn,            \* MainWindow._export_btn is enabled
    split_btn,             \* MainWindow._split_btn is enabled
    gui_result,            \* MainWindow._result
    workers,               \* the AnalyzeWorkers started whose signal is not handled yet
    split_workers,         \* the SplitWorkers started whose signal is not handled yet
    gui_event              \* the user event or worker signal delivered last

pipelineVars == <<ppc, temp_file, exported, output_paths, progress, stages_done>>

repeatVars == <<pending, history, last_split_time>>

clusterVars == <<embeddings, cpc, next_k, best_score, best_labels, best_n,
                 fit_calls, fit_of_two, last_attempt, top_candidate>>

guiVars == <<gui_video, panel_enabled, analyze_btn, export_btn, split_btn,
             gui_result, workers, split_workers, gui_event>>

vars == <<min_segment_duration, shot_changes, speech_segments, speaker_labels,
          video_duration, stage, speaker_change_times, splits, final_splits,
          skipped_shots, refiltered, segments_info, pipelineVars, repeatVars,
          clusterVars, guiVars>>

----------------------------------------------------------------------------
(* Program constants *)

SHOT_SPEAKER_TIME_TOLERANCE == 10
SHOT_SPEAKER_CONFIDENCE == 9
MAX_SPEAKERS == 10
SHOT_CHANGE_AND_SPEAKER_CHANGE == "SHOT_CHANGE_AND_SPEAKER_CHANGE"
TooShort == "segment too short"
SpeechContinuous == "speech continuous, no split"
\* Python's None for speaker_labels: a value different from every label list
\* (speaker labels are non-negative integers)
None == <<-1>>

----------------------------------------------------------------------------
(* Data model *)

SpeechSegment(s, e) == [start |-> s, end |-> e]

SplitPoint(t, r, c) == [timestamp |-> t, reason |-> r, confidence |-> c]

SegmentInfo(i, s, e, d) == [index |-> i, start |-> s, end |-> e, duration |-> d]

Abs(x) == IF x < 0 THEN -x ELSE x

----------------------------------------------------------------------------
(* _find_speaker_changes.  Python index i (1..len-1) is index j = i+1 here. *)
(* The result is [raised, value]: raised is TRUE when speech_segments[i-1]  *)
(* is out of range (IndexError).                                            *)

Returned(v) == [raised |-> FALSE, value |-> v]

IndexError == [raised |-> TRUE, value |-> <<>>]

\* Variant: the change is stamped at the start of the later span
FindStepStartOfNext(segs, labels, j, change_times) ==
    IF labels[j] # labels[j - 1]
    THEN IF j > Len(segs)
         THEN IndexError
         ELSE Returned(Append(change_times, segs[j].start))
    ELSE Returned(change_times)

\* Variant: the label comparison is inverted
FindStepOnEqual(segs, labels, j, change_times) ==
    IF labels[j] = labels[j - 1]
    THEN IF j - 1 > Len(segs)
         THEN IndexError
         ELSE Returned(Append(change_times, segs[j - 1].end))
    ELSE Returned(change_times)

FindStep(segs, labels, j, change_times) ==
    IF labels[j] # labels[j - 1]
    THEN IF j - 1 > Len(segs)
         THEN IndexError
         ELSE Returned(Append(change_times, segs[j - 1].end))
    ELSE Returned(change_times)

RECURSIVE FindLoop(_, _, _, _)
FindLoop(segs, labels, j, acc) ==
    IF acc.raised \/ j > Len(labels)
    THEN acc
    ELSE FindLoop(segs, labels, j + 1, FindStep(segs, labels, j, acc.value))

find_speaker_changes(segs, labels) ==
    IF labels = None \/ Len(labels) < 2
    THEN Returned(<<>>)
    ELSE FindLoop(segs, labels, 2, Returned(<<>>))

----------------------------------------------------------------------------
(* _has_speaker_change_near and _process_shot_changes *)

\* Variant: the tolerance window is closed
has_speaker_change_near_inclusive(shot_time, change_times) ==
    \E k \in 1..Len(change_times) :
        Abs(change_times[k] - shot_time) <= SHOT_SPEAKER_TIME_TOLERANCE

\* Variant: the difference is not taken in absolute value
has_speaker_change_near_signed(shot_time, change_times) ==
    \E k \in 1..Len(change_times) :
        change_times[k] - shot_time < SHOT_SPEAKER_TIME_TOLERANCE

has_speaker_change_near(shot_time, change_times) ==
    \E k \in 1..Len(change_times) :
        Abs(change_times[k] - shot_time) < SHOT_SPEAKER_TIME_TOLERANCE

\* Variant: last_split_time is kept on the segmenter instead of restarting at 0
PassStartCarried ==
    [final_splits |-> <<>>, skipped_shots |-> <<>>, last_split_time |-> last_split_time]

PassStart == [final_splits |-> <<>>, skipped_shots |-> <<>>, last_split_time |-> 0]

\* Variant: last_split_time is not advanced when a split is emitted
ProcessShotKeepLast(st, shot_time, change_times, D) ==
    IF shot_time - st.last_split_time < D
    THEN [st EXCEPT !.skipped_shots = Append(@, <<shot_time, TooShort>>)]
    ELSE IF \E k \in 1..Len(change_times) :
                Abs(change_times[k] - shot_time) < SHOT_SPEAKER_TIME_TOLERANCE
         THEN [st EXCEPT
                 !.final_splits = Append(@, SplitPoint(shot_time,
                                             SHOT_CHANGE_AND_SPEAKER_CHANGE,
                                             SHOT_SPEAKER_CONFIDENCE))]
         ELSE [st EXCEPT !.skipped_shots = Append(@, <<shot_time, SpeechContinuous>>)]

\* Variant: the gate measures the distance to the last split in either direction
ProcessShotAbsGap(st, shot_time, change_times, D) ==
    IF Abs(shot_time - st.last_split_time) < D
    THEN [st EXCEPT !.skipped_shots = Append(@, <<shot_time, TooShort>>)]
    ELSE IF \E k \in 1..Len(change_times) :
                Abs(change_times[k] - shot_time) < SHOT_SPEAKER_TIME_TOLERANCE
         THEN [st EXCEPT
                 !.final_splits = Append(@, SplitPoint(shot_time,
                                             SHOT_CHANGE_AND_SPEAKER_CHANGE,
                                             SHOT_SPEAKER_CONFIDENCE)),
                 !.last_split_time = shot_time]
         ELSE [st EXCEPT !.skipped_shots = Append(@, <<shot_time, SpeechContinuous>>)]

\* Variant: the speaker test comes before the minimum-duration gate
ProcessShotSpeakerFirst(st, shot_time, change_times, D) ==
    IF ~\E k \in 1..Len(change_times) :
            Abs(change_times[k] - shot_time) < SHOT_SPEAKER_TIME_TOLERANCE
    THEN [st EXCEPT !.skipped_shots = Append(@, <<shot_time, SpeechContinuous>>)]
    ELSE IF shot_time - st.last_split_time < D
         THEN [st EXCEPT !.skipped_shots = Append(@, <<shot_time, TooShort>>)]
         ELSE [st EXCEPT
                 !.final_splits = Append(@, SplitPoint(shot_time,
                                             SHOT_CHANGE_AND_SPEAKER_CHANGE,
                                             SHOT_SPEAKER_CONFIDENCE)),
                 !.last_split_time = shot_time]

\* Variant: a shot skipped as too short moves last_split_time to that shot
ProcessShotAdvanceOnSkip(st, shot_time, change_times, D) ==
    IF shot_time - st.last_split_time < D
    THEN [st EXCEPT !.skipped_shots = Append(@, <<shot_time, TooShort>>),
                    !.last_split_time = shot_time]
    ELSE IF \E k \in 1..Len(change_times) :
                Abs(change_times[k] - shot_time) < SHOT_SPEAKER_TIME_TOLERANCE
         THEN [st EXCEPT
                 !.final_splits = Append(@, SplitPoint(shot_time,
                                             SHOT_CHANGE_AND_SPEAKER_CHANGE,
                                             SHOT_SPEAKER_CONFIDENCE)),
                 !.last_split_time = shot_time]
         ELSE [st EXCEPT !.skipped_shots = Append(@, <<shot_time, SpeechContinuous>>)]

ProcessShot(st, shot_time, change_times, D) ==
    IF shot_time - st.last_split_time < D
    THEN [st EXCEPT !.skipped_shots = Append(@, <<shot_time, TooShort>>)]
    ELSE IF has_speaker_change_near(shot_time, change_times)
         THEN [st EXCEPT
                 !.final_splits = Append(@, SplitPoint(shot_time,
                                             SHOT_CHANGE_AND_SPEAKER_CHANGE,
                                             SHOT_SPEAKER_CONFIDENCE)),
                 !.last_split_time = shot_time]
         ELSE [st EXCEPT !.skipped_shots = Append(@, <<shot_time, SpeechContinuous>>)]

RECURSIVE ProcessLoop(_, _, _, _, _)
ProcessLoop(shots, k, st, change_times, D) ==
    IF k > Len(shots)
    THEN st
    ELSE ProcessLoop(shots, k + 1, ProcessShot(st, shots[k], change_times, D),
                     change_times, D)

process_shot_changes(shots, change_times, D) ==
    ProcessLoop(shots, 1, PassStart, change_times, D)

----------------------------------------------------------------------------
(* list.sort(key=timestamp): a stable sort *)

SortInsert(s, x) ==
    LET p == Cardinality({k \in 1..Len(s) : s[k].timestamp <= x.timestamp})
    IN  SubSeq(s, 1, p) \o <<x>> \o SubSeq(s, p + 1, Len(s))

RECURSIVE sort_by_timestamp(_)
sort_by_timestamp(L) ==
    IF L = <<>>
    THEN <<>>
    ELSE SortInsert(sort_by_timestamp(SubSeq(L, 1, Len(L) - 1)), L[Len(L)])

----------------------------------------------------------------------------
(* _filter_close_splits *)

\* Variant: a retained point is inserted at the front of the list
FilterStepPrepend(filtered, split, D) ==
    IF split.timestamp - filtered[Len(filtered)].timestamp >= D
    THEN <<split>> \o filtered
    ELSE IF split.confidence > filtered[Len(filtered)].confidence
         THEN [filtered EXCEPT ![Len(filtered)] = split]
         ELSE filtered

\* Variant: the replacement overwrites the first retained point
FilterStepReplaceFirst(filtered, split, D) ==
    IF split.timestamp - filtered[Len(filtered)].timestamp >= D
    THEN Append(filtered, split)
    ELSE IF split.confidence > filtered[Len(filtered)].confidence
         THEN [filtered EXCEPT ![1] = split]
         ELSE filtered

\* Variant: a close point of equal confidence replaces the retained one
FilterStepTieReplaces(filtered, split, D) ==
    IF split.timestamp - filtered[Len(filtered)].timestamp >= D
    THEN Append(filtered, split)
    ELSE IF split.confidence >= filtered[Len(filtered)].confidence
         THEN [filtered EXCEPT ![Len(filtered)] = split]
         ELSE filtered

FilterStep(filtered, split, D) ==
    IF split.timestamp - filtered[Len(filtered)].timestamp >= D
    THEN Append(filtered, split)
    ELSE IF split.confidence > filtered[Len(filtered)].confidence
         THEN [filtered EXCEPT ![Len(filtered)] = split]
         ELSE filtered

RECURSIVE FilterLoop(_, _, _, _)
FilterLoop(L, k, filtered, D) ==
    IF k > Len(L)
    THEN filtered
    ELSE FilterLoop(L, k + 1, FilterStep(filtered, L[k], D), D)

filter_close_splits(L, D) ==
    IF Len(L) <= 1
    THEN L
    ELSE FilterLoop(L, 2, <<L[1]>>, D)

----------------------------------------------------------------------------
(* get_segments_info *)

\* Variant: the video duration is not appended to the boundaries
TimestampsNoEnd(L, duration) ==
    <<0>> \o [k \in 1..Len(L) |-> L[k].timestamp]

Timestamps(L, duration) ==
    <<0>> \o [k \in 1..Len(L) |-> L[k].timestamp] \o <<duration>>

\* Variant: the boundaries are taken from the splits in ascending order
get_segments_info_sorted(L, duration) ==
    LET timestamps == Timestamps(sort_by_timestamp(L), duration)
    IN  [k \in 1..(Len(timestamps) - 1) |->
            SegmentInfo(k - 1, timestamps[k], timestamps[k + 1],
                        timestamps[k + 1] - timestamps[k])]

get_segments_info(L, duration) ==
    LET timestamps == Timestamps(L, duration)
    IN  [k \in 1..(Len(timestamps) - 1) |->
            SegmentInfo(k - 1, timestamps[k], timestamps[k + 1],
                        timestamps[k + 1] - timestamps[k])]

----------------------------------------------------------------------------
(* Bounds and input domains *)

MaxTick == 3
MaxShots == 2
MaxSpans == 2
MaxSplits == 3

HalfSecond == SHOT_SPEAKER_TIME_TOLERANCE \div 2

Times == {k * HalfSecond : k \in 0..MaxTick}

MinDurations == {0, HalfSecond, 2 * HalfSecond, 3 * HalfSecond}

LabelValues == {0, 1}

Confidences == {SHOT_SPEAKER_CONFIDENCE - 1, SHOT_SPEAKER_CONFIDENCE}

SeqsUpTo(S, n) == UNION {[1..k -> S] : k \in 0..n}

ShotLists == SeqsUpTo(Times, MaxShots)

Spans == {SpeechSegment(a, b) : a \in Times, b \in {c \in Times : c > 0}}

SpanLists ==
    {s \in SeqsUpTo(Spans, MaxSpans) :
        /\ \A k \in 1..Len(s) : s[k].start < s[k].end
        /\ \A k \in 1..(Len(s) - 1) : s[k].end <= s[k + 1].start}

LabelLists == {None} \cup SeqsUpTo(LabelValues, MaxSpans)

SplitLists ==
    SeqsUpTo({SplitPoint(t, SHOT_CHANGE_AND_SPEAKER_CHANGE, c) :
                 t \in Times, c \in Confidences}, MaxSplits)

\* Timestamp-ascending lists of three SplitPoints over three confidence levels
ChainLists ==
    {L \in [1..3 -> {SplitPoint(t, SHOT_CHANGE_AND_SPEAKER_CHANGE, c) :
                        t \in Times,
                        c \in Confidences \cup {SHOT_SPEAKER_CONFIDENCE + 1}}] :
        \A k \in 1..2 : L[k].timestamp <= L[k + 1].timestamp}

EndOfVideo == (MaxTick + 1) * HalfSecond

(* The worked examples of the specification, in tenths of a second *)
Tiling(ends) ==
    [k \in 1..Len(ends) |-> SpeechSegment(IF k = 1 THEN 0 ELSE ends[k - 1], ends[k])]

Scenarios ==
    { [D |-> 20, shots |-> <<50, 54, 200>>, segs |-> Tiling(<<52, 198, 250>>),
       labels |-> <<0, 1, 0>>, duration |-> 250],
      [D |-> 20, shots |-> <<100>>, segs |-> Tiling(<<115, 200>>),
       labels |-> <<0, 1>>, duration |-> 200],
      [D |-> 20, shots |-> <<20>>, segs |-> Tiling(<<10, 20, 30, 40, 50>>),
       labels |-> <<0, 0, 1, 1, 0>>, duration |-> 50],
      [D |-> 20, shots |-> <<20, 30, 45>>, segs |-> Tiling(<<25, 50, 60>>),
       labels |-> <<0, 1, 0>>, duration |-> 60] }

\* Three shots 0.5 s to 2.0 s apart around two speaker changes, with the
\* default minimum duration of 2.0 s
GapScenarios ==
    { [D |-> 20, shots |-> <<20, 20 + a, 20 + a + b>>,
       segs |-> Tiling(<<c1, c2, 80>>), labels |-> <<0, 1, 0>>, duration |-> 80] :
        a \in {5, 10, 15, 20}, b \in {5, 10, 15, 20},
        c1 \in {15, 25, 30}, c2 \in {35, 45, 55} }

----------------------------------------------------------------------------
(* Spec: SmartSegmenter(D).analyze(...) followed by get_segments_info on    *)
(* its final_splits, as VideoPipeline.analyze does.                         *)

\* No pipeline run and no repeated call is in progress
PipelineIdle ==
    /\ ppc = "none"
    /\ temp_file = FALSE
    /\ exported = <<>>
    /\ output_paths = <<>>
    /\ progress = <<>>
    /\ stages_done = <<>>

RepeatIdle ==
    /\ pending = <<>>
    /\ history = <<>>
    /\ last_split_time = 0

----------------------------------------------------------------------------
(* SpeakerDiarizer: diarize, _cluster_speakers, _find_optimal_clusters.     *)
(* An embedding is modelled by whether it is the all-zero vector (0) or not *)
(* (1); a silhouette score, a float in (-1, 1], by an integer of tenths.    *)
(* A mean silhouette of exactly -1 would need every sample to sit at        *)
(* distance 0 from another cluster and at a positive distance from its own, *)
(* which cosine distance does not allow, so every score exceeds -1.         *)

\* best_score = -1 before the search, in tenths
InitialBestScore == -10

\* [0] * len(items)
ZeroLabels(items) == [i \in 1..Len(items) |-> 0]

\* Variant: the np.any(emb != 0) filter is dropped
valid_indices_unfiltered(embs) == [i \in 1..Len(embs) |-> i]

RECURSIVE ValidFrom(_, _)
ValidFrom(embs, i) ==
    IF i > Len(embs)
    THEN <<>>
    ELSE (IF embs[i] # 0 THEN <<i>> ELSE <<>>) \o ValidFrom(embs, i + 1)

\* valid_indices = [i for i, emb in enumerate(embeddings) if np.any(emb != 0)]
valid_indices(embs) == ValidFrom(embs, 1)

\* Variant: the list starts as [0] * len(embeddings), so nothing is left to fill
MapBackZeroDefault(n, valid, cluster_labels) ==
    [i \in 1..n |->
        IF \E j \in 1..Len(valid) : valid[j] = i
        THEN cluster_labels[CHOOSE j \in 1..Len(valid) : valid[j] = i]
        ELSE 0]

\* labels = [-1] * len(embeddings); labels[idx] = cluster_labels[i]
MapBack(n, valid, cluster_labels) ==
    [i \in 1..n |->
        IF \E j \in 1..Len(valid) : valid[j] = i
        THEN cluster_labels[CHOOSE j \in 1..Len(valid) : valid[j] = i]
        ELSE -1]

\* Variant: the test labels[i] == -1 is missing, every position is overwritten
FillStepAlways(labels, i) ==
    [labels EXCEPT ![i] = IF i > 1 THEN labels[i - 1] ELSE 0]

\* Variant: a placeholder is always replaced by 0
FillStepZero(labels, i) ==
    IF labels[i] = -1 THEN [labels EXCEPT ![i] = 0] ELSE labels

\* One pass of the fill loop: labels[i] = labels[i - 1] if i > 0 else 0
FillStep(labels, i) ==
    IF labels[i] = -1
    THEN [labels EXCEPT ![i] = IF i > 1 THEN labels[i - 1] ELSE 0]
    ELSE labels

RECURSIVE FillLoop(_, _)
FillLoop(labels, i) ==
    IF i > Len(labels) THEN labels ELSE FillLoop(FillStep(labels, i), i + 1)

\* _cluster_speakers after _find_optimal_clusters returned cluster_labels
labels_of(embs, cluster_labels) ==
    FillLoop(MapBack(Len(embs), valid_indices(embs), cluster_labels), 1)

\* max_k = min(n_samples - 1, MAX_SPEAKERS)
max_k(n_samples) ==
    IF n_samples - 1 < MAX_SPEAKERS THEN n_samples - 1 ELSE MAX_SPEAKERS

\* Two of the labelings fit_predict can return for n samples and K clusters:
\* labels 0..K-1, every cluster non-empty
LabelingVariants == {0, 1}

Labeling(n, K, variant) ==
    [i \in 1..n |-> IF variant = 0 THEN (i - 1) % K ELSE (K - 1) - ((i - 1) % K)]

\* Some values of silhouette_score, in tenths
ScoreValues == {-9, 0, 5}

FitRaised == [kind |-> "fit_raised", score |-> 0, labels |-> <<>>]

ScoreRaised(labels) == [kind |-> "score_raised", score |-> 0, labels |-> labels]

Scored(score, labels) == [kind |-> "scored", score |-> score, labels |-> labels]

NoAttempt == [kind |-> "none", score |-> 0, labels |-> <<>>]

NoCandidate == [k |-> 0, score |-> InitialBestScore, labels |-> <<>>]

Untried == [state |-> "untried", labels |-> <<>>]

\* What fit_predict can do for n samples and K clusters: raise, or return a
\* labeling l (the record ScoreRaised(l): fitted, nothing scored).  It is
\* deterministic, so a K = 2 fit repeats what it did before.
FitResults(n, K, known) ==
    IF K = 2 /\ known.state = "raised"
    THEN {FitRaised}
    ELSE IF K = 2 /\ known.state = "fitted"
         THEN {ScoreRaised(known.labels)}
         ELSE {FitRaised} \cup {ScoreRaised(Labeling(n, K, v)) : v \in LabelingVariants}

\* What one pass of the loop body can meet: fit_predict raises,
\* silhouette_score raises, or a score is computed
Outcomes(n, K, known) ==
    LET fits == FitResults(n, K, known)
    IN  fits \cup {Scored(v, fit.labels) : v \in ScoreValues,
                                          fit \in fits \ {FitRaised}}

\* What is then known of fit_predict for n_clusters=2
FitKnown(outcome) ==
    IF outcome.kind = "fit_raised"
    THEN [state |-> "raised", labels |-> <<>>]
    ELSE [state |-> "fitted", labels |-> outcome.labels]

Best(score, labels, n) == [best_score |-> score, best_labels |-> labels, best_n |-> n]

\* Variant: an equal score replaces the best found so far
TryCandidateOnEqual(best, K, outcome) ==
    IF outcome.kind = "scored" /\ outcome.score >= best.best_score
    THEN Best(outcome.score, outcome.labels, K)
    ELSE best

\* The loop body: if score > best_score the candidate becomes the best one;
\* an exception leaves the locals as they are (except Exception: continue)
TryCandidate(best, K, outcome) ==
    IF outcome.kind = "scored" /\ outcome.score > best.best_score
    THEN Best(outcome.score, outcome.labels, K)
    ELSE best

ClusterIdle ==
    /\ embeddings = <<>>
    /\ cpc = "none"
    /\ next_k = 2
    /\ best_score = InitialBestScore
    /\ best_labels = None
    /\ best_n = 2
    /\ fit_calls = <<>>
    /\ fit_of_two = Untried
    /\ last_attempt = NoAttempt
    /\ top_candidate = NoCandidate

----------------------------------------------------------------------------
(* MainWindow of the GUI: the controls that start an analysis or a split    *)

\* The state of the window after MainWindow.__init__
GuiIdle ==
    /\ gui_video = ""
    /\ panel_enabled = TRUE
    /\ analyze_btn = FALSE
    /\ export_btn = FALSE
    /\ split_btn = FALSE
    /\ gui_result = "none"
    /\ workers = <<>>
    /\ split_workers = 0
    /\ gui_event = "none"

NoResult ==
    /\ speaker_change_times = <<>>
    /\ splits = <<>>
    /\ final_splits = <<>>
    /\ skipped_shots = <<>>
    /\ refiltered = <<>>
    /\ segments_info = <<>>

Init ==
    /\ stage = "constructed"
    /\ \/ /\ min_segment_duration \in MinDurations
          /\ shot_changes \in ShotLists
          /\ speech_segments \in SpanLists
          /\ speaker_labels \in LabelLists
          /\ video_duration = EndOfVideo
       \/ \E sc \in Scenarios \cup GapScenarios :
            /\ min_segment_duration = sc.D
            /\ shot_changes = sc.shots
            /\ speech_segments = sc.segs
            /\ speaker_labels = sc.labels
            /\ video_duration = sc.duration
    /\ NoResult
    /\ PipelineIdle
    /\ RepeatIdle
    /\ ClusterIdle
    /\ GuiIdle

\* Variant: the pass and the filter are run with the 1.0 s tolerance as the
\* minimum gap instead of min_segment_duration
AnalyzeGapFromTolerance ==
    /\ stage = "constructed"
    /\ LET changes == find_speaker_changes(speech_segments, speaker_labels)
           pass == process_shot_changes(shot_changes, changes.value,
                                        SHOT_SPEAKER_TIME_TOLERANCE)
           sorted == sort_by_timestamp(pass.final_splits)
       IN  IF changes.raised
           THEN /\ stage' = "raised"
                /\ UNCHANGED <<speaker_change_times, splits, final_splits,
                               skipped_shots>>
           ELSE /\ stage' = "analyzed"
                /\ speaker_change_times' = changes.value
                /\ splits' = sorted
                /\ final_splits' = filter_close_splits(sorted,
                                                       SHOT_SPEAKER_TIME_TOLERANCE)
                /\ skipped_shots' = pass.skipped_shots
    /\ UNCHANGED <<min_segment_duration, shot_changes, speech_segments,
                   speaker_labels, video_duration, refiltered, segments_info>>

\* Variant: analyze sorts the shot list it was given in place before the pass
AnalyzeSortsShots ==
    /\ stage = "constructed"
    /\ LET asPoints == [k \in 1..Len(shot_changes) |->
                           SplitPoint(shot_changes[k], SHOT_CHANGE_AND_SPEAKER_CHANGE,
                                      SHOT_SPEAKER_CONFIDENCE)]
           ordered == sort_by_timestamp(asPoints)
           shots == [k \in 1..Len(ordered) |-> ordered[k].timestamp]
           changes == find_speaker_changes(speech_segments, speaker_labels)
           pass == process_shot_changes(shots, changes.value, min_segment_duration)
           sorted == sort_by_timestamp(pass.final_splits)
       IN  /\ shot_changes' = shots
           /\ IF changes.raised
              THEN /\ stage' = "raised"
                   /\ UNCHANGED <<speaker_change_times, splits, final_splits,
                                  skipped_shots>>
              ELSE /\ stage' = "analyzed"
                   /\ speaker_change_times' = changes.value
                   /\ splits' = sorted
                   /\ final_splits' = filter_close_splits(sorted, min_segment_duration)
                   /\ skipped_shots' = pass.skipped_shots
    /\ UNCHANGED <<min_segment_duration, speech_segments,
                   speaker_labels, video_duration, refiltered, segments_info>>

Analyze ==
    /\ stage = "constructed"
    /\ LET changes == find_speaker_changes(speech_segments, speaker_labels)
           pass == process_shot_changes(shot_changes, changes.value,
                                        min_segment_duration)
           sorted == sort_by_timestamp(pass.final_splits)
       IN  IF changes.raised
           THEN /\ stage' = "raised"
                /\ UNCHANGED <<speaker_change_times, splits, final_splits,
                               skipped_shots>>
           ELSE /\ stage' = "analyzed"
                /\ speaker_change_times' = changes.value
                /\ splits' = sorted
                /\ final_splits' = filter_close_splits(sorted, min_segment_duration)
                /\ skipped_shots' = pass.skipped_shots
    /\ UNCHANGED <<min_segment_duration, shot_changes, speech_segments,
                   speaker_labels, video_duration, refiltered, segments_info>>

SegmentsOfAnalysis ==
    /\ stage = "analyzed"
    /\ stage' = "projected"
    /\ segments_info' = get_segments_info(final_splits, video_duration)
    /\ UNCHANGED <<min_segment_duration, shot_changes, speech_segments,
                   speaker_labels, video_duration, speaker_change_times, splits,
                   final_splits, skipped_shots, refiltered>>

Next ==
    \/ Analyze /\ UNCHANGED <<pipelineVars, repeatVars, clusterVars, guiVars>>
    \/ SegmentsOfAnalysis /\ UNCHANGED <<pipelineVars, repeatVars, clusterVars, guiVars>>

Spec == Init /\ [][Next]_vars

----------------------------------------------------------------------------
(* ListSpec: the list operations on an arbitrary SplitPoint list:           *)
(* sort + _filter_close_splits (analyze, lines 59-60), the filter run again *)
(* on its own output, and get_segments_info on the list as given.           *)

ListInit ==
    /\ stage = "given"
    /\ min_segment_duration \in MinDurations
    /\ splits \in SplitLists \cup ChainLists
    /\ video_duration \in Times \cup {EndOfVideo}
    /\ shot_changes = <<>>
    /\ speech_segments = <<>>
    /\ speaker_labels = None
    /\ speaker_change_times = <<>>
    /\ final_splits = <<>>
    /\ skipped_shots = <<>>
    /\ refiltered = <<>>
    /\ segments_info = <<>>
    /\ PipelineIdle
    /\ RepeatIdle
    /\ ClusterIdle
    /\ GuiIdle

SortAndFilter ==
    /\ stage = "given"
    /\ stage' = "filtered"
    /\ splits' = sort_by_timestamp(splits)
    /\ final_splits' = filter_close_splits(splits', min_segment_duration)
    /\ UNCHANGED <<min_segment_duration, shot_changes, speech_segments,
                   speaker_labels, video_duration, speaker_change_times,
                   skipped_shots, refiltered, segments_info>>

FilterAgain ==
    /\ stage = "filtered"
    /\ stage' = "refiltered"
    /\ refiltered' = filter_close_splits(final_splits, min_segment_duration)
    /\ UNCHANGED <<min_segment_duration, shot_changes, speech_segments,
                   speaker_labels, video_duration, speaker_change_times, splits,
                   final_splits, skipped_shots, segments_info>>

SegmentsOfList ==
    /\ stage = "given"
    /\ stage' = "segmented"
    /\ segments_info' = get_segments_info(splits, video_duration)
    /\ UNCHANGED <<min_segment_duration, shot_changes, speech_segments,
                   speaker_labels, video_duration, speaker_change_times, splits,
                   final_splits, skipped_shots, refiltered>>

ListNext ==
    \/ SortAndFilter /\ UNCHANGED <<pipelineVars, repeatVars, clusterVars, guiVars>>
    \/ FilterAgain /\ UNCHANGED <<pipelineVars, repeatVars, clusterVars, guiVars>>
    \/ SegmentsOfList /\ UNCHANGED <<pipelineVars, repeatVars, clusterVars, guiVars>>

ListSpec == ListInit /\ [][ListNext]_vars

----------------------------------------------------------------------------
(* PipelineSpec: VideoPipeline.analyze (extract_audio around the stages and *)
(* segmenter.analyze, then get_segments_info) followed by split_video.      *)
(* The detector, the recognizer and the diarizer are external: their        *)
(* outputs are drawn in PipelineInit, their failures are WithBodyRaises.    *)

AscendingShotLists ==
    {s \in ShotLists : \A k \in 1..(Len(s) - 1) : s[k] <= s[k + 1]}

\* Variant: ffmpeg's -t is given the end of the segment
ExportRequestsToEnd(L, duration) ==
    LET timestamps == <<0>> \o [k \in 1..Len(L) |-> L[k].timestamp] \o <<duration>>
    IN  [k \in 1..(Len(timestamps) - 1) |->
            [index |-> k - 1, start |-> timestamps[k], duration |-> timestamps[k + 1]]]

\* VideoSplitter.split: the _export_segment calls, file i named ..._segment_{i:03d}
ExportRequests(L, duration) ==
    LET timestamps == <<0>> \o [k \in 1..Len(L) |-> L[k].timestamp] \o <<duration>>
    IN  [k \in 1..(Len(timestamps) - 1) |->
            [index |-> k - 1, start |-> timestamps[k],
             duration |-> timestamps[k + 1] - timestamps[k]]]

\* VideoPipeline.split_video: nothing is exported when there is no split
split_video(L, duration) ==
    IF L = <<>> THEN <<>> ELSE ExportRequests(L, duration)

PipelineInit ==
    /\ stage = "constructed"
    /\ \/ /\ min_segment_duration \in MinDurations
          /\ shot_changes \in AscendingShotLists
          /\ speech_segments \in SpanLists
          /\ speaker_labels \in [1..Len(speech_segments) -> LabelValues]
          /\ video_duration = EndOfVideo
       \/ \E sc \in Scenarios :
            /\ min_segment_duration = sc.D
            /\ shot_changes = sc.shots
            /\ speech_segments = sc.segs
            /\ speaker_labels = sc.labels
            /\ video_duration = sc.duration
    /\ NoResult
    /\ ppc = "start"
    /\ temp_file = FALSE
    /\ exported = <<>>
    /\ output_paths = <<>>
    /\ progress = <<>>
    /\ stages_done = <<>>
    /\ RepeatIdle
    /\ ClusterIdle
    /\ GuiIdle

\* extract_audio up to its yield: the temporary file is created, then ffmpeg
\* runs with check=True and either succeeds or raises CalledProcessError
ExtractAudioEnter ==
    /\ ppc = "start"
    /\ temp_file' = TRUE
    /\ \/ ppc' = "with_body"
       \/ ppc' = "raised"
    /\ UNCHANGED <<min_segment_duration, shot_changes, speech_segments,
                   speaker_labels, video_duration, stage, speaker_change_times,
                   splits, final_splits, skipped_shots, refiltered, segments_info,
                   exported, output_paths, progress, stages_done, repeatVars,
                   clusterVars, guiVars>>

\* Variant: the steps are counted from 0
report_from_zero(step, total) == <<step - 1, total>>

\* report(step, total): one call of the progress callback
report(step, total) == <<step, total>>

\* The four stages of the with block, in the order of the code
ShotDetection == "shot detection"
SpeechRecognition == "speech recognition"
SpeakerDiarization == "speaker diarization"
Fusion == "fusion"

bodyFrame == <<min_segment_duration, shot_changes, speech_segments,
               speaker_labels, video_duration, stage, speaker_change_times,
               splits, final_splits, skipped_shots, refiltered, segments_info,
               ppc, temp_file, exported, output_paths, repeatVars, clusterVars, guiVars>>

\* report(1, 4), shot_detector.detect, get_video_duration
DetectShots ==
    /\ ppc = "with_body"
    /\ stage = "constructed"
    /\ stages_done = <<>>
    /\ progress' = Append(progress, report(1, 4))
    /\ stages_done' = Append(stages_done, ShotDetection)
    /\ UNCHANGED bodyFrame

\* report(2, 4), speech_recognizer.recognize
RecognizeSpeech ==
    /\ ppc = "with_body"
    /\ stage = "constructed"
    /\ stages_done = <<ShotDetection>>
    /\ progress' = Append(progress, report(2, 4))
    /\ stages_done' = Append(stages_done, SpeechRecognition)
    /\ UNCHANGED bodyFrame

\* report(3, 4), diarizer.diarize
DiarizeSpeakers ==
    /\ ppc = "with_body"
    /\ stage = "constructed"
    /\ stages_done = <<ShotDetection, SpeechRecognition>>
    /\ progress' = Append(progress, report(3, 4))
    /\ stages_done' = Append(stages_done, SpeakerDiarization)
    /\ UNCHANGED bodyFrame

\* report(4, 4), segmenter.analyze on what the three stages returned
WithBodyAnalyze ==
    /\ ppc = "with_body"
    /\ stages_done = <<ShotDetection, SpeechRecognition, SpeakerDiarization>>
    /\ Analyze
    /\ progress' = Append(progress, report(4, 4))
    /\ stages_done' = IF stage' = "raised" THEN stages_done
                                           ELSE Append(stages_done, Fusion)
    /\ UNCHANGED <<ppc, temp_file, exported, output_paths, repeatVars, clusterVars, guiVars>>

\* One of the three external stages raises, after its report
WithBodyRaises ==
    /\ ppc = "with_body"
    /\ stage = "constructed"
    /\ Len(stages_done) < 3
    /\ stage' = "raised"
    /\ progress' = Append(progress, report(Len(stages_done) + 1, 4))
    /\ UNCHANGED <<min_segment_duration, shot_changes, speech_segments,
                   speaker_labels, video_duration, speaker_change_times,
                   splits, final_splits, skipped_shots, refiltered, segments_info,
                   ppc, temp_file, exported, output_paths, stages_done,
                   repeatVars, clusterVars, guiVars>>

\* extract_audio after its yield: the finally clause unlinks the file
ExtractAudioExit ==
    /\ ppc = "with_body"
    /\ stage \in {"analyzed", "raised"}
    /\ temp_file' = FALSE
    /\ ppc' = IF stage = "raised" THEN "raised" ELSE "after_with"
    /\ UNCHANGED <<min_segment_duration, shot_changes, speech_segments,
                   speaker_labels, video_duration, stage, speaker_change_times,
                   splits, final_splits, skipped_shots, refiltered, segments_info,
                   exported, output_paths, progress, stages_done, repeatVars,
                   clusterVars, guiVars>>

PipelineSegments ==
    /\ ppc = "after_with"
    /\ SegmentsOfAnalysis
    /\ ppc' = "returned"
    /\ stages_done' = Append(stages_done, "segments")
    /\ UNCHANGED <<temp_file, exported, output_paths, progress, repeatVars,
                   clusterVars, guiVars>>

\* split_video on the PipelineResult: each _export_segment runs ffmpeg with
\* check=True, so the first failing export ends the call with an exception
SplitVideo ==
    /\ ppc = "returned"
    /\ LET requests == split_video(final_splits, video_duration)
       IN  \E n \in 0..Len(requests) :
              /\ exported' = SubSeq(requests, 1, n)
              /\ IF n = Len(requests)
                 THEN /\ ppc' = "split_done"
                      /\ output_paths' = [k \in 1..n |-> requests[k].index]
                 ELSE /\ ppc' = "split_raised"
                      /\ UNCHANGED output_paths
    /\ UNCHANGED <<min_segment_duration, shot_changes, speech_segments,
                   speaker_labels, video_duration, stage, speaker_change_times,
                   splits, final_splits, skipped_shots, refiltered, segments_info,
                   temp_file, progress, stages_done, repeatVars, clusterVars, guiVars>>

PipelineNext ==
    \/ ExtractAudioEnter
    \/ DetectShots
    \/ RecognizeSpeech
    \/ DiarizeSpeakers
    \/ WithBodyAnalyze
    \/ WithBodyRaises
    \/ ExtractAudioExit
    \/ PipelineSegments
    \/ SplitVideo

PipelineSpec == PipelineInit /\ [][PipelineNext]_vars

----------------------------------------------------------------------------
(* RepeatSpec: several analyze calls on one SmartSegmenter.  pending is the *)
(* calls still to be made, history what each call was given and returned,   *)
(* last_split_time the value the pass of the latest call ended with.        *)

AlternatingLabels(n) == [k \in 1..n |-> (k - 1) % 2]

CallInput(shots, segs, labels, duration) ==
    [shots |-> shots, segs |-> segs, labels |-> labels, duration |-> duration]

RepeatInputs ==
    {CallInput(shots, segs, labels, EndOfVideo) :
        shots \in AscendingShotLists,
        segs \in SpanLists,
        labels \in {None} \cup SeqsUpTo(LabelValues, 1)} \cup
    {CallInput(shots, segs, AlternatingLabels(Len(segs)), EndOfVideo) :
        shots \in AscendingShotLists, segs \in SpanLists}

BetweenInputs ==
    {CallInput(sc.shots, sc.segs, sc.labels, sc.duration) : sc \in Scenarios}

\* analyze as one call: what it raises or returns, and where its pass ended
AnalysisOf(inp, D) ==
    LET changes == find_speaker_changes(inp.segs, inp.labels)
        pass == process_shot_changes(inp.shots, changes.value, D)
        sorted == sort_by_timestamp(pass.final_splits)
    IN  IF changes.raised
        THEN [raised |-> TRUE, speaker_change_times |-> <<>>, splits |-> <<>>,
              final_splits |-> <<>>, skipped_shots |-> <<>>,
              last_split_time |-> last_split_time]
        ELSE [raised |-> FALSE, speaker_change_times |-> changes.value,
              splits |-> sorted,
              final_splits |-> filter_close_splits(sorted, D),
              skipped_shots |-> pass.skipped_shots,
              last_split_time |-> pass.last_split_time]

RepeatInit ==
    /\ stage = "constructed"
    /\ min_segment_duration \in MinDurations
    /\ shot_changes = <<>>
    /\ speech_segments = <<>>
    /\ speaker_labels = None
    /\ video_duration = 0
    /\ NoResult
    /\ PipelineIdle
    /\ ClusterIdle
    /\ GuiIdle
    /\ \E a \in RepeatInputs :
          \/ pending = <<a, a>>
          \/ \E b \in BetweenInputs : pending = <<a, b, a>>
    /\ history = <<>>
    /\ last_split_time = 0

AnalyzeCall ==
    /\ pending # <<>>
    /\ LET inp == Head(pending)
           res == AnalysisOf(inp, min_segment_duration)
       IN  /\ shot_changes' = inp.shots
           /\ speech_segments' = inp.segs
           /\ speaker_labels' = inp.labels
           /\ video_duration' = inp.duration
           /\ stage' = IF res.raised THEN "raised" ELSE "analyzed"
           /\ speaker_change_times' = res.speaker_change_times
           /\ splits' = res.splits
           /\ final_splits' = res.final_splits
           /\ skipped_shots' = res.skipped_shots
           /\ last_split_time' = res.last_split_time
           /\ history' = Append(history,
                                [inputs |-> inp, raised |-> res.raised,
                                 final_splits |-> res.final_splits,
                                 skipped_shots |-> res.skipped_shots])
    /\ pending' = Tail(pending)
    /\ UNCHANGED <<min_segment_duration, refiltered, segments_info, pipelineVars,
                   clusterVars, guiVars>>

RepeatNext == AnalyzeCall

RepeatSpec == RepeatInit /\ [][RepeatNext]_vars

----------------------------------------------------------------------------
(* ClusterSpec: one diarize call, or one _cluster_speakers call, on the     *)
(* embeddings of the speech spans.                                          *)

MaxEmb == 4

UnitSpans(n) == [i \in 1..n |-> SpeechSegment((i - 1) * HalfSecond, i * HalfSecond)]

\* Inputs long enough for MAX_SPEAKERS to cap the search
LongEmbeddingLists ==
    {[i \in 1..n |-> 1] : n \in {MAX_SPEAKERS + 1, MAX_SPEAKERS + 2}} \cup
    {[i \in 1..(MAX_SPEAKERS + 3) |-> IF i \in {1, MaxEmb + 1} THEN 0 ELSE 1]}

EmbeddingLists == SeqsUpTo({0, 1}, MaxEmb) \cup LongEmbeddingLists

analysisVars == <<min_segment_duration, shot_changes, video_duration, stage,
                  speaker_change_times, splits, final_splits, skipped_shots,
                  refiltered, segments_info>>

ClusterInit ==
    /\ stage = "constructed"
    /\ min_segment_duration = 2 * HalfSecond
    /\ shot_changes = <<>>
    /\ video_duration = EndOfVideo
    /\ speaker_labels = None
    /\ NoResult
    /\ PipelineIdle
    /\ RepeatIdle
    /\ GuiIdle
    /\ embeddings \in EmbeddingLists
    /\ speech_segments = UnitSpans(Len(embeddings))
    /\ cpc \in {"diarize", "cluster_speakers"}
    /\ next_k = 2
    /\ best_score = InitialBestScore
    /\ best_labels = None
    /\ best_n = 2
    /\ fit_calls = <<>>
    /\ fit_of_two = Untried
    /\ last_attempt = NoAttempt
    /\ top_candidate = NoCandidate

searchVars == <<next_k, best_score, best_labels, best_n, fit_calls, fit_of_two,
                last_attempt, top_candidate>>

\* diarize up to the call of _cluster_speakers
Diarize ==
    /\ cpc = "diarize"
    /\ IF Len(speech_segments) < 2
       THEN /\ speaker_labels' = ZeroLabels(speech_segments)
            /\ cpc' = "returned"
       ELSE /\ cpc' = "cluster_speakers"
            /\ UNCHANGED speaker_labels
    /\ UNCHANGED <<analysisVars, speech_segments, pipelineVars, repeatVars, guiVars,
                   embeddings, searchVars>>

\* _cluster_speakers up to the call of _find_optimal_clusters, and that
\* function up to its loop
ClusterSpeakers ==
    /\ cpc = "cluster_speakers"
    /\ LET valid == valid_indices(embeddings)
       IN  IF Len(valid) < 2
           THEN /\ speaker_labels' = ZeroLabels(embeddings)
                /\ cpc' = "returned"
                /\ UNCHANGED best_labels
           ELSE \* if n_samples < 2: return [0] * n_samples, else the search starts
                /\ cpc' = "find"
                /\ best_labels' = IF Len(valid) < 2 THEN ZeroLabels(valid) ELSE None
                /\ UNCHANGED speaker_labels
    /\ UNCHANGED <<analysisVars, speech_segments, pipelineVars, repeatVars, guiVars,
                   embeddings, next_k, best_score, best_n, fit_calls, fit_of_two,
                   last_attempt, top_candidate>>

\* One pass of the loop for k in range(2, max_k + 1)
TryNext ==
    /\ cpc = "find"
    /\ LET n == Len(valid_indices(embeddings))
       IN  /\ next_k <= max_k(n)
           /\ \E outcome \in Outcomes(n, next_k, fit_of_two) :
                 LET best == TryCandidate(Best(best_score, best_labels, best_n),
                                          next_k, outcome)
                 IN  /\ best_score' = best.best_score
                     /\ best_labels' = best.best_labels
                     /\ best_n' = best.best_n
                     /\ last_attempt' = outcome
                     /\ fit_of_two' = IF next_k = 2 THEN FitKnown(outcome)
                                                   ELSE fit_of_two
                     /\ top_candidate' =
                            IF outcome.kind = "scored"
                               /\ \/ top_candidate = NoCandidate
                                  \/ outcome.score > top_candidate.score
                            THEN [k |-> next_k, score |-> outcome.score,
                                  labels |-> outcome.labels]
                            ELSE top_candidate
    /\ fit_calls' = Append(fit_calls, next_k)
    /\ next_k' = next_k + 1
    /\ UNCHANGED <<analysisVars, speech_segments, speaker_labels, pipelineVars,
                   repeatVars, guiVars, embeddings, cpc>>

\* if best_labels is None: fit once more with n_clusters=2, outside any try
Fallback ==
    /\ cpc = "find"
    /\ LET n == Len(valid_indices(embeddings))
       IN  /\ next_k > max_k(n)
           /\ best_labels = None
           /\ \E fit \in FitResults(n, 2, fit_of_two) :
                 /\ fit_of_two' = FitKnown(fit)
                 /\ IF fit = FitRaised
                    THEN /\ cpc' = "raised"
                         /\ UNCHANGED <<best_labels, best_n>>
                    ELSE /\ cpc' = "find"
                         /\ best_labels' = fit.labels
                         /\ best_n' = 2
    /\ fit_calls' = Append(fit_calls, 2)
    /\ UNCHANGED <<analysisVars, speech_segments, speaker_labels, pipelineVars,
                   repeatVars, guiVars, embeddings, next_k, best_score, last_attempt,
                   top_candidate>>

\* _find_optimal_clusters returns best_labels; _cluster_speakers maps them
\* back to the input positions and fills the invalid ones
ReturnLabels ==
    /\ cpc = "find"
    /\ next_k > max_k(Len(valid_indices(embeddings)))
    /\ best_labels # None
    /\ speaker_labels' = labels_of(embeddings, best_labels)
    /\ cpc' = "returned"
    /\ UNCHANGED <<analysisVars, speech_segments, pipelineVars, repeatVars, guiVars,
                   embeddings, searchVars>>

ClusterNext ==
    \/ Diarize
    \/ ClusterSpeakers
    \/ TryNext
    \/ Fallback
    \/ ReturnLabels

ClusterSpec == ClusterInit /\ [][ClusterNext]_vars

----------------------------------------------------------------------------
(* Helpers of the properties *)

Analyzed == stage \in {"analyzed", "projected"}

\* The locals of _process_shot_changes after its first k loop iterations
PassAfter(k) ==
    process_shot_changes(SubSeq(shot_changes, 1, k), speaker_change_times,
                         min_segment_duration)

\* speaker_labels pairs with speech_segments index by index (or is absent)
Paired == speaker_labels = None \/ Len(speaker_labels) = Len(speech_segments)

\* Indices k such that span k is followed by a span with a different label
ChangeAfter ==
    IF speaker_labels = None
    THEN {}
    ELSE {k \in 1..(Len(speaker_labels) - 1) :
             /\ k <= Len(speech_segments)
             /\ speaker_labels[k + 1] # speaker_labels[k]}

NearChange(t) ==
    \E k \in ChangeAfter : Abs(speech_segments[k].end - t) < SHOT_SPEAKER_TIME_TOLERANCE

IsScenario(shots, ends, labels, D) ==
    /\ shot_changes = shots
    /\ speech_segments = Tiling(ends)
    /\ speaker_labels = labels
    /\ min_segment_duration = D

----------------------------------------------------------------------------
\* C1: any two consecutive SplitPoints of analyze's final_splits have
\* timestamps at least min_segment_duration apart.
C1_MinGap ==
    Analyzed =>
        \A k \in 1..(Len(final_splits) - 1) :
            final_splits[k + 1].timestamp - final_splits[k].timestamp
                >= min_segment_duration

C1_Witness ==
    /\ stage = "analyzed"
    /\ min_segment_duration > 0
    /\ Len(final_splits) >= 2
    /\ \E k \in 1..Len(skipped_shots) : skipped_shots[k][2] = TooShort

\* C2: every SplitPoint of final_splits is at an input shot boundary that has
\* a speaker change (end of a span whose successor has another label) less
\* than the tolerance away.
C2_SplitsAreConfirmedShots ==
    Analyzed =>
        \A k \in 1..Len(final_splits) :
            /\ \E i \in 1..Len(shot_changes) :
                   shot_changes[i] = final_splits[k].timestamp
            /\ NearChange(final_splits[k].timestamp)

C2_Witness ==
    /\ stage = "analyzed"
    /\ Len(final_splits) >= 1
    /\ \E k \in 1..Len(skipped_shots) :
           /\ skipped_shots[k][2] = SpeechContinuous
           /\ \E j \in ChangeAfter :
                  Abs(speech_segments[j].end - skipped_shots[k][1])
                      = SHOT_SPEAKER_TIME_TOLERANCE

\* C3: the list returned by get_segments_info starts at 0, ends at the video
\* duration, and each segment ends where the next one starts.
C3_SegmentsChain ==
    stage = "segmented" =>
        /\ Len(segments_info) >= 1
        /\ segments_info[1].start = 0
        /\ segments_info[Len(segments_info)].end = video_duration
        /\ \A k \in 1..(Len(segments_info) - 1) :
               segments_info[k].end = segments_info[k + 1].start

C3_Witness ==
    /\ stage = "segmented"
    /\ Len(splits) >= 2
    /\ Len(segments_info) = Len(splits) + 1
    /\ video_duration > 0

\* C4: k SplitPoints give exactly k+1 Segment records; record i has index i,
\* start boundary[i], end boundary[i+1] and duration boundary[i+1] - boundary[i]
\* for boundary = [0, t_1, ..., t_k, Tmax] in the order the splits were given.
C4_Boundary(i) ==
    IF i = 0 THEN 0
    ELSE IF i = Len(splits) + 1 THEN video_duration
    ELSE splits[i].timestamp

C4_SegmentRecords ==
    stage = "segmented" =>
        /\ Len(segments_info) = Len(splits) + 1
        /\ \A i \in 0..Len(splits) :
               /\ segments_info[i + 1].index = i
               /\ segments_info[i + 1].start = C4_Boundary(i)
               /\ segments_info[i + 1].end = C4_Boundary(i + 1)
               /\ segments_info[i + 1].duration = C4_Boundary(i + 1) - C4_Boundary(i)

C4_Witness ==
    /\ stage = "segmented"
    /\ Len(splits) >= 2
    /\ \E k \in 1..(Len(splits) - 1) : splits[k].timestamp > splits[k + 1].timestamp
    /\ \E k \in 1..Len(segments_info) : segments_info[k].duration < 0

\* C5: a shot boundary t that passes the minimum-duration gate is emitted as a
\* split exactly when some speaker change is strictly less than the tolerance
\* away from t; otherwise it goes to skipped_shots as "speech continuous".
\* With shot 10.0 and the only change at 11.5 the shot is skipped.
C5_Emitted(before, after, t) ==
    /\ after.final_splits =
           Append(before.final_splits,
                  SplitPoint(t, SHOT_CHANGE_AND_SPEAKER_CHANGE, SHOT_SPEAKER_CONFIDENCE))
    /\ after.skipped_shots = before.skipped_shots

C5_Skipped(before, after, t) ==
    /\ after.final_splits = before.final_splits
    /\ after.skipped_shots = Append(before.skipped_shots, <<t, SpeechContinuous>>)

C5_ToleranceIsStrict ==
    Analyzed =>
        /\ PassAfter(Len(shot_changes)).skipped_shots = skipped_shots
        /\ \A k \in 1..Len(shot_changes) :
               LET before == PassAfter(k - 1)
                   after == PassAfter(k)
                   t == shot_changes[k]
                   near == \E j \in 1..Len(speaker_change_times) :
                               \/ /\ speaker_change_times[j] >= t
                                  /\ speaker_change_times[j] - t
                                         < SHOT_SPEAKER_TIME_TOLERANCE
                               \/ /\ speaker_change_times[j] < t
                                  /\ t - speaker_change_times[j]
                                         < SHOT_SPEAKER_TIME_TOLERANCE
               IN  t - before.last_split_time >= min_segment_duration =>
                       /\ near => C5_Emitted(before, after, t)
                       /\ ~near => C5_Skipped(before, after, t)
        /\ IsScenario(<<100>>, <<115, 200>>, <<0, 1>>, 20) =>
               /\ final_splits = <<>>
               /\ skipped_shots = <<<<100, SpeechContinuous>>>>

C5_Witness ==
    /\ stage = "analyzed"
    /\ min_segment_duration > 0
    /\ Len(final_splits) >= 1
    /\ \E k \in 1..Len(skipped_shots) :
           /\ skipped_shots[k][2] = SpeechContinuous
           /\ \E j \in 1..Len(speaker_change_times) :
                  speaker_change_times[j] - skipped_shots[k][1]
                      = SHOT_SPEAKER_TIME_TOLERANCE

\* C6: shots [5.0, 5.4, 20.0], speaker changes [5.2, 19.8], D = 2.0: 5.0 is a
\* split with confidence 0.9, 5.4 is skipped as "segment too short", 20.0 is a
\* split, and the final splits are exactly [5.0, 20.0].
C6_Scenario ==
    (Analyzed /\ IsScenario(<<50, 54, 200>>, <<52, 198, 250>>, <<0, 1, 0>>, 20)) =>
        /\ speaker_change_times = <<52, 198>>
        /\ final_splits =
               <<SplitPoint(50, SHOT_CHANGE_AND_SPEAKER_CHANGE, 9),
                 SplitPoint(200, SHOT_CHANGE_AND_SPEAKER_CHANGE, 9)>>
        /\ skipped_shots = <<<<54, TooShort>>>>

C6_Witness ==
    /\ stage = "analyzed"
    /\ IsScenario(<<50, 54, 200>>, <<52, 198, 250>>, <<0, 1, 0>>, 20)
    /\ Len(final_splits) = 2

\* C7: the close-split filter is idempotent on timestamp-ascending lists with
\* arbitrary confidences: filtering its own output returns that output.
C7_FilterIdempotent ==
    stage = "refiltered" => refiltered = final_splits

C7_Witness ==
    /\ stage = "refiltered"
    /\ Len(final_splits) >= 2
    /\ Len(final_splits) < Len(splits)
    /\ \E k \in 1..Len(splits) :
           splits[k].confidence # splits[1].confidence

\* C8: in the filter, a point closer than D to the last retained one replaces
\* it only when its confidence is strictly higher and is dropped otherwise;
\* a point at least D after the last retained one is appended.
C8_FilterStepRule ==
    stage = "filtered" =>
        /\ final_splits = filter_close_splits(splits, min_segment_duration)
        /\ \A k \in 1..(Len(splits) - 1) :
               LET kept == filter_close_splits(SubSeq(splits, 1, k),
                                               min_segment_duration)
                   next == filter_close_splits(SubSeq(splits, 1, k + 1),
                                               min_segment_duration)
                   last == kept[Len(kept)]
                   new == splits[k + 1]
               IN  IF new.timestamp - last.timestamp >= min_segment_duration
                   THEN next = Append(kept, new)
                   ELSE IF new.confidence > last.confidence
                        THEN next = SubSeq(kept, 1, Len(kept) - 1) \o <<new>>
                        ELSE next = kept

C8_Witness ==
    /\ stage = "filtered"
    /\ Len(splits) = 3
    /\ Len(final_splits) = 1
    /\ splits[2].timestamp - splits[1].timestamp < min_segment_duration
    /\ splits[2].confidence > splits[1].confidence
    /\ splits[3].confidence = splits[2].confidence
    /\ final_splits[1] = splits[2]
    /\ splits[3] # splits[2]

\* C9: for N spans and N labels, _find_speaker_changes returns, in index
\* order, one time per index i with labels[i] # labels[i-1], and that time is
\* the end of span i-1; labels [0,0,1,1,0] with span ends [1,2,3,4,5] give [2,4].
C9_Nth(m) ==
    CHOOSE k \in ChangeAfter : Cardinality({i \in ChangeAfter : i <= k}) = m

C9_ChangeTimes ==
    (Analyzed /\ speaker_labels # None /\ Len(speaker_labels) = Len(speech_segments)) =>
        /\ Len(speaker_change_times) = Cardinality(ChangeAfter)
        /\ \A m \in 1..Len(speaker_change_times) :
               speaker_change_times[m] = speech_segments[C9_Nth(m)].end
        /\ (/\ speaker_labels = <<0, 0, 1, 1, 0>>
            /\ speech_segments = Tiling(<<10, 20, 30, 40, 50>>))
               => speaker_change_times = <<20, 40>>

C9_Witness ==
    /\ stage = "analyzed"
    /\ speaker_labels = <<0, 0, 1, 1, 0>>
    /\ speech_segments = Tiling(<<10, 20, 30, 40, 50>>)
    /\ speaker_change_times = <<20, 40>>

\* C10: for paired inputs, when the shot boundary list is empty or there is no
\* speaker change (zero or one span, no labels, all labels equal), analyze
\* raises no exception and returns an empty final_splits list.
C10_NoSpeakerChange ==
    \/ Len(speech_segments) <= 1
    \/ speaker_labels = None
    \/ speaker_labels = <<>>
    \/ \A i, j \in 1..Len(speaker_labels) : speaker_labels[i] = speaker_labels[j]

C10_DegenerateInputs ==
    (stage # "constructed" /\ Paired
        /\ (shot_changes = <<>> \/ C10_NoSpeakerChange)) =>
        /\ stage # "raised"
        /\ final_splits = <<>>

C10_Witness ==
    /\ stage = "analyzed"
    /\ Paired
    /\ Len(shot_changes) >= 2
    /\ Len(speaker_labels) >= 2
    /\ speaker_labels # None
    /\ C10_NoSpeakerChange
    /\ Len(skipped_shots) = Len(shot_changes)
    /\ final_splits = <<>>

\* C11: with no speaker signal (no speech spans, hence no labels) analyze
\* degrades to shot-only segmentation: it still cuts at the shot boundaries
\* that respect the minimum segment duration, the first of them included.
C11_ShotOnlyFallback ==
    (Analyzed /\ speech_segments = <<>>
        /\ (speaker_labels = None \/ speaker_labels = <<>>)
        /\ \A k \in 1..Len(shot_changes) : shot_changes[k] > 0) =>
        LET passing == {i \in 1..Len(shot_changes) :
                           shot_changes[i] - 0 >= min_segment_duration}
        IN  passing # {} =>
                /\ Len(final_splits) >= 1
                /\ \E i \in passing :
                       /\ \A j \in passing : i <= j
                       /\ final_splits[1].timestamp = shot_changes[i]

\* C16: for ascending shot boundaries strictly inside (0, Tmax), every Segment
\* of get_segments_info(final_splits, Tmax), the first and the last included,
\* lasts at least min_segment_duration.
C16_NoShortSegment ==
    (/\ stage = "projected"
     /\ Paired
     /\ \A k \in 1..(Len(shot_changes) - 1) : shot_changes[k] <= shot_changes[k + 1]
     /\ \A k \in 1..Len(shot_changes) :
            0 < shot_changes[k] /\ shot_changes[k] < video_duration) =>
        \A k \in 1..Len(segments_info) :
            segments_info[k].duration >= min_segment_duration

\* C18: when speech_segments and speaker_labels differ in length, no change
\* list is computed from a truncated prefix: the mismatch is rejected.
C18_MismatchRejected ==
    (/\ stage # "constructed"
     /\ speaker_labels # None
     /\ Len(speaker_labels) # Len(speech_segments)) =>
        stage = "raised"

\* C17 as stated: for every PipelineResult, zero final splits included, a
\* split_video call that returns has exported exactly one file per Segment of
\* segments_info, file i with segment i's index, start and duration.
C17_SameAsSegments ==
    /\ Len(exported) = Len(segments_info)
    /\ Len(output_paths) = Len(segments_info)
    /\ \A i \in 1..Len(segments_info) :
           /\ exported[i].index = segments_info[i].index
           /\ exported[i].start = segments_info[i].start
           /\ exported[i].duration = segments_info[i].duration
           /\ output_paths[i] = segments_info[i].index

C17_OneFilePerSegment ==
    ppc = "split_done" => C17_SameAsSegments

\* C17 amended: with at least one final split a returning split_video call
\* exports exactly one file per Segment (index, start, duration); with no
\* final split it exports nothing and returns [].
C17_OneFilePerSegmentIfSplit ==
    ppc = "split_done" =>
        IF final_splits = <<>>
        THEN exported = <<>> /\ output_paths = <<>>
        ELSE C17_SameAsSegments

C17_Witness ==
    /\ ppc = "split_done"
    /\ Len(final_splits) = 2
    /\ Len(exported) = 3
    /\ exported[3].start = final_splits[2].timestamp

\* C20: after any use of extract_audio (body completed, body raised, or the
\* ffmpeg extraction failed) its temporary file no longer exists.
C20_TempFileRemoved ==
    ppc \in {"raised", "after_with", "returned", "split_done", "split_raised"} =>
        temp_file = FALSE

\* C19: any two analyze calls on the same SmartSegmenter with equal inputs
\* return equal final_splits and skipped_shots (and raise alike), whatever
\* call was made in between.
C19_SameInputsSameResult ==
    \A i, j \in 1..Len(history) :
        history[i].inputs = history[j].inputs =>
            /\ history[i].raised = history[j].raised
            /\ history[i].final_splits = history[j].final_splits
            /\ history[i].skipped_shots = history[j].skipped_shots

C19_Witness ==
    /\ Len(history) = 3
    /\ history[1].inputs = history[3].inputs
    /\ history[2].inputs # history[1].inputs
    /\ history[2].final_splits # <<>>
    /\ history[3].final_splits # <<>>
    /\ history[3].final_splits[1].timestamp <
           history[2].final_splits[Len(history[2].final_splits)].timestamp

ValidPositions == {i \in 1..Len(embeddings) : embeddings[i] # 0}

ValidCount == Cardinality(ValidPositions)

\* C12: with fewer than 2 valid embeddings (so also with fewer than 2 speech
\* spans) the call returns one label 0 per input and never calls fit_predict.
C12_FewValidAllZero ==
    ValidCount < 2 =>
        /\ fit_calls = <<>>
        /\ cpc \notin {"find", "raised"}
        /\ cpc = "returned" =>
               /\ Len(speaker_labels) = Len(embeddings)
               /\ \A i \in 1..Len(embeddings) : speaker_labels[i] = 0

C12_Witness ==
    /\ cpc = "returned"
    /\ Len(embeddings) = 3
    /\ ValidPositions = {2}
    /\ speaker_labels = <<0, 0, 0>>

\* C13: _cluster_speakers returns one non-negative label per embedding; a
\* valid position has the cluster label computed for it, an invalid one the
\* label of the nearest valid position before it, or 0 if there is none.
C13_OneLabelPerEmbedding ==
    cpc = "returned" =>
        /\ Len(speaker_labels) = Len(embeddings)
        /\ \A i \in 1..Len(embeddings) :
              LET before == {j \in ValidPositions : j <= i}
              IN  /\ speaker_labels[i] >= 0
                  /\ (i \in ValidPositions /\ ValidCount >= 2) =>
                         speaker_labels[i] = best_labels[Cardinality(before)]
                  /\ i \notin ValidPositions =>
                         speaker_labels[i] =
                             IF before = {} THEN 0
                             ELSE speaker_labels[CHOOSE j \in before :
                                                     \A h \in before : h <= j]

C13_Witness ==
    /\ cpc = "returned"
    /\ ValidCount >= 2
    /\ 1 \notin ValidPositions
    /\ \E i \in 2..Len(embeddings) :
           /\ i \notin ValidPositions
           /\ i - 1 \in ValidPositions
           /\ speaker_labels[i] = 1

C14_MaxK == IF ValidCount - 1 < MAX_SPEAKERS THEN ValidCount - 1 ELSE MAX_SPEAKERS

\* C14: the search calls fit_predict for K = 2, 3, ... up to
\* min(MAX_SPEAKERS, n_valid - 1) in this order whatever fails on the way;
\* at every point the best labeling is that of the first candidate with the
\* highest score among those scored, and that labeling is what is returned.
C14_SearchKeepsFirstTop ==
    (cpc \in {"find", "returned", "raised"} /\ ValidCount >= 2) =>
        /\ next_k <= C14_MaxK + 1
        /\ Len(fit_calls) >= next_k - 2
        /\ \A i \in 1..(next_k - 2) : fit_calls[i] = i + 1
        /\ top_candidate # NoCandidate =>
               /\ best_labels = top_candidate.labels
               /\ best_n = top_candidate.k
               /\ best_score = top_candidate.score
               /\ Len(fit_calls) = next_k - 2
        /\ cpc = "returned" =>
               /\ next_k = C14_MaxK + 1
               /\ top_candidate # NoCandidate =>
                      \A i \in ValidPositions :
                          speaker_labels[i] =
                              top_candidate.labels[Cardinality({j \in ValidPositions : j <= i})]

C14_Witness ==
    /\ cpc = "returned"
    /\ ValidCount > MAX_SPEAKERS + 1
    /\ Len(fit_calls) = MAX_SPEAKERS - 1
    /\ fit_of_two.state = "raised"
    /\ top_candidate.k = 3
    /\ last_attempt.kind = "scored"
    /\ last_attempt.score = top_candidate.score

\* C15: no exception leaves the clusterer; when no candidate was scored the
\* search still returns a labeling with K = 2.
C15_FallbackNeverRaises ==
    /\ cpc # "raised"
    /\ (cpc = "returned" /\ ValidCount >= 2 /\ top_candidate = NoCandidate) =>
           /\ best_n = 2
           /\ Len(best_labels) = ValidCount
           /\ \A i \in 1..Len(best_labels) : best_labels[i] \in {0, 1}

\* The timestamp of the last split emitted so far, 0 if there is none
C21_LastEmitted(st) ==
    IF st.final_splits = <<>> THEN 0
    ELSE st.final_splits[Len(st.final_splits)].timestamp

\* C21: at every point of the forward pass last_split_time is the timestamp of
\* the last split emitted so far (0 before the first one); a shot skipped for
\* either reason leaves it as it was, and the "too short" gate of the next
\* shot measures from it.
C21_LastSplitTimeFrame ==
    Analyzed =>
        /\ C21_LastEmitted(PassAfter(0)) = 0 /\ PassAfter(0).last_split_time = 0
        /\ \A k \in 1..Len(shot_changes) :
              LET before == PassAfter(k - 1)
                  after == PassAfter(k)
                  t == shot_changes[k]
                  skipped == Len(after.skipped_shots) = Len(before.skipped_shots) + 1
              IN  /\ after.last_split_time = C21_LastEmitted(after)
                  /\ skipped => /\ after.last_split_time = before.last_split_time
                                /\ after.final_splits = before.final_splits
                  /\ ~skipped => /\ after.last_split_time = t
                                 /\ Len(after.final_splits) = Len(before.final_splits) + 1
                  /\ (skipped /\ after.skipped_shots[Len(after.skipped_shots)][2] = TooShort)
                         <=> (t - C21_LastEmitted(before) < min_segment_duration)

C21_Witness ==
    /\ Analyzed
    /\ Len(shot_changes) = 2
    /\ skipped_shots = <<<<shot_changes[1], TooShort>>>>
    /\ Len(final_splits) = 1
    /\ final_splits[1].timestamp = shot_changes[2]
    /\ shot_changes[1] > 0
    /\ shot_changes[2] - shot_changes[1] < min_segment_duration

\* C22: every SplitPoint the filter removes from an ascending list lies less
\* than D away from a SplitPoint of the output whose confidence is at least
\* as high.
C22_RemovedNearBetterKept ==
    stage = "filtered" =>
        \A i \in 1..Len(splits) :
            (\A j \in 1..Len(final_splits) : final_splits[j] # splits[i]) =>
                \E j \in 1..Len(final_splits) :
                    /\ Abs(final_splits[j].timestamp - splits[i].timestamp)
                           < min_segment_duration
                    /\ final_splits[j].confidence >= splits[i].confidence

C23_Reports == <<<<1, 4>>, <<2, 4>>, <<3, 4>>, <<4, 4>>>>

C23_Stages ==
    <<ShotDetection, SpeechRecognition, SpeakerDiarization, Fusion, "segments">>

\* C23: VideoPipeline.analyze reports (1,4), (2,4), (3,4), (4,4) in this
\* order, each once; a stage starts (its report is made) only when the one
\* before it has returned; a call that returns has run all of them and its
\* segments_info is the projection of the fusion step's final_splits.
C23_StagesForward ==
    /\ Len(progress) <= Len(C23_Reports)
    /\ progress = SubSeq(C23_Reports, 1, Len(progress))
    /\ Len(stages_done) <= Len(C23_Stages)
    /\ stages_done = SubSeq(C23_Stages, 1, Len(stages_done))
    /\ Len(stages_done) <= Len(progress) + 1
    /\ Len(progress) <= Len(stages_done) + 1
    /\ Len(stages_done) < 4 => segments_info = <<>> /\ final_splits = <<>>
    /\ ppc \in {"returned", "split_done", "split_raised"} =>
           /\ progress = C23_Reports
           /\ stages_done = C23_Stages
           /\ segments_info = get_segments_info(final_splits, video_duration)

C23_Witness ==
    /\ ppc = "returned"
    /\ progress = C23_Reports
    /\ Len(final_splits) = 2
    /\ Len(segments_info) = 3
    /\ skipped_shots # <<>>

\* C24: no step of analyze or get_segments_info changes the lists it was
\* given: the shot list, the span list and the label list stay as passed in
\* (and are what the AnalysisResult holds), and get_segments_info leaves the
\* SplitPoint list it projects as it was.
C24_InputsUnchanged ==
    [][/\ shot_changes' = shot_changes
       /\ speech_segments' = speech_segments
       /\ speaker_labels' = speaker_labels
       /\ video_duration' = video_duration
       /\ stage = "analyzed" => final_splits' = final_splits]_vars

C24_Witness ==
    /\ stage = "projected"
    /\ Len(shot_changes) = 2
    /\ shot_changes[2] < shot_changes[1]
    /\ Len(speech_segments) = 2
    /\ speaker_labels = <<0, 1>>
    /\ final_splits # <<>>
    /\ Len(segments_info) = Len(final_splits) + 1

\* The shots at the positions S, in input order
C25_Pick(S) ==
    [i \in 1..Cardinality(S) |->
        shot_changes[CHOOSE k \in S : Cardinality({j \in S : j <= k}) = i]]

\* The timestamp of the last shot at a position of S before position k, or 0
C25_LastBefore(S, k) ==
    LET earlier == {j \in S : j < k}
    IN  IF earlier = {} THEN 0
        ELSE shot_changes[CHOOSE j \in earlier : \A h \in earlier : h <= j]

\* C25: the positions of the shot list split into those emitted and those
\* skipped: final_splits holds the first, skipped_shots the second, each in
\* input order, so the two lengths add up to len(shot_changes); a skipped shot
\* has reason "segment too short" exactly when it is closer than D to the last
\* split emitted before it, whatever the speaker test would say; without
\* repeated timestamps no shot is in both lists.
C25_EveryShotOnce ==
    Analyzed =>
        /\ Len(final_splits) + Len(skipped_shots) = Len(shot_changes)
        /\ \E E \in SUBSET (1..Len(shot_changes)) :
              LET S == (1..Len(shot_changes)) \ E
              IN  /\ [i \in 1..Len(final_splits) |-> final_splits[i].timestamp]
                         = C25_Pick(E)
                  /\ [i \in 1..Len(skipped_shots) |-> skipped_shots[i][1]]
                         = C25_Pick(S)
                  /\ \A k \in E :
                         shot_changes[k] - C25_LastBefore(E, k) >= min_segment_duration
                  /\ \A i \in 1..Len(skipped_shots) :
                         LET k == CHOOSE k \in S : Cardinality({j \in S : j <= k}) = i
                             short == shot_changes[k] - C25_LastBefore(E, k)
                                          < min_segment_duration
                         IN  skipped_shots[i][2] =
                                 IF short THEN TooShort ELSE SpeechContinuous
        /\ (\A i, j \in 1..Len(shot_changes) :
                i # j => shot_changes[i] # shot_changes[j]) =>
               \A i \in 1..Len(final_splits), j \in 1..Len(skipped_shots) :
                   final_splits[i].timestamp # skipped_shots[j][1]

C25_Witness ==
    /\ Analyzed
    /\ Len(shot_changes) = 3
    /\ Len(final_splits) = 2
    /\ skipped_shots = <<<<shot_changes[2], TooShort>>>>
    /\ NearChange(shot_changes[2])

\* C26: for every shot list, ascending or not, what the forward pass emits is
\* already ascending with consecutive gaps of at least D, so the sort and the
\* filter of analyze return it element for element.
C26_SortAndFilterAreNoOps ==
    Analyzed =>
        LET emitted == PassAfter(Len(shot_changes)).final_splits
        IN  /\ \A k \in 1..(Len(emitted) - 1) :
                   emitted[k + 1].timestamp - emitted[k].timestamp
                       >= min_segment_duration
            /\ \A k \in 1..(Len(emitted) - 1) :
                   emitted[k].timestamp <= emitted[k + 1].timestamp
            /\ splits = emitted
            /\ final_splits = emitted

C26_Witness ==
    /\ Analyzed
    /\ min_segment_duration = 0
    /\ Len(shot_changes) = 2
    /\ shot_changes[2] < shot_changes[1]
    /\ NearChange(shot_changes[2])
    /\ Len(final_splits) = 1
    /\ final_splits[1].timestamp = shot_changes[1]

\* C27: with min_segment_duration at least twice the tolerance, no speaker
\* change time lies within the tolerance of two different final splits.
C27_OneSplitPerChange ==
    (Analyzed /\ min_segment_duration >= 2 * SHOT_SPEAKER_TIME_TOLERANCE) =>
        \A m \in 1..Len(speaker_change_times) :
            \A i, j \in 1..Len(final_splits) :
                (/\ Abs(speaker_change_times[m] - final_splits[i].timestamp)
                        < SHOT_SPEAKER_TIME_TOLERANCE
                 /\ Abs(speaker_change_times[m] - final_splits[j].timestamp)
                        < SHOT_SPEAKER_TIME_TOLERANCE) => i = j

C27_Witness ==
    /\ Analyzed
    /\ min_segment_duration >= 2 * SHOT_SPEAKER_TIME_TOLERANCE
    /\ Len(final_splits) = 2
    /\ \E m \in 1..Len(speaker_change_times) :
           /\ Abs(speaker_change_times[m] - shot_changes[1]) < SHOT_SPEAKER_TIME_TOLERANCE
           /\ Abs(speaker_change_times[m] - shot_changes[2]) < SHOT_SPEAKER_TIME_TOLERANCE
           /\ shot_changes[2] - shot_changes[1] >= SHOT_SPEAKER_TIME_TOLERANCE
    /\ final_splits[1].timestamp = shot_changes[1]
    /\ skipped_shots = <<<<shot_changes[2], TooShort>>>>

\* C28: when at least 2 embeddings are valid, the labels _cluster_speakers
\* returns hold at least two different values (never a single cluster), so
\* their change-point projection has at least one speaker change; with
\* exactly 2 valid embeddings these two positions get different labels.
C28_AtLeastTwoSpeakers ==
    (cpc = "returned" /\ ValidCount >= 2) =>
        /\ best_n >= 2
        /\ \E i, j \in 1..Len(speaker_labels) : speaker_labels[i] # speaker_labels[j]
        /\ find_speaker_changes(speech_segments, speaker_labels).value # <<>>
        /\ ValidCount = 2 =>
               \A i, j \in ValidPositions :
                   i # j => speaker_labels[i] # speaker_labels[j]

C28_Witness ==
    /\ cpc = "returned"
    /\ embeddings = <<0, 1, 0, 1>>
    /\ speaker_labels[2] # speaker_labels[4]
    /\ Len(find_speaker_changes(speech_segments, speaker_labels).value) = 1

\* C29: a span whose embedding is invalid gets the label of the span before
\* it, so the change-point projection reports no change at the end of that
\* preceding span.
C29_InvalidSpanNoChange ==
    cpc = "returned" =>
        \A i \in 2..Len(embeddings) :
            i \notin ValidPositions =>
                /\ speaker_labels[i] = speaker_labels[i - 1]
                /\ LET changes == find_speaker_changes(speech_segments,
                                                       speaker_labels).value
                   IN  \A m \in 1..Len(changes) :
                           changes[m] # speech_segments[i - 1].end

C29_Witness ==
    /\ cpc = "returned"
    /\ embeddings = <<1, 1, 0, 0>>
    /\ speaker_labels = <<0, 1, 1, 1>>

----------------------------------------------------------------------------
(* The GUI: MainWindow, ConfigPanel and the worker threads.  Each action is *)
(* one user event or one queued signal together with the slots it runs.     *)

MaxWorkers == 2

Videos == {"a.mp4", "b.mp4"}

ResultKinds == {"splits", "no_splits"}

RemoveAt(seq, idx) == [j \in 1..(Len(seq) - 1) |-> IF j < idx THEN seq[j] ELSE seq[j + 1]]

\* MainWindow._set_controls_enabled with the window's path and result
set_controls_enabled(enabled, video_path, result) ==
    [panel   |-> enabled,
     analyze |-> enabled /\ video_path # "",
     export  |-> enabled /\ result # "none",
     split   |-> enabled /\ result = "splits"]

SetControls(c) ==
    /\ panel_enabled' = c.panel
    /\ analyze_btn' = c.analyze
    /\ export_btn' = c.export
    /\ split_btn' = c.split

segmenterFrame == <<min_segment_duration, shot_changes, speech_segments,
                    speaker_labels, video_duration, stage, speaker_change_times,
                    splits, final_splits, skipped_shots, refiltered,
                    segments_info, pipelineVars, repeatVars, clusterVars>>

\* ConfigPanel._set_video_path, and MainWindow._load_video when the file exists
set_video_path(path, exists) ==
    /\ gui_video' = path
    /\ analyze_btn' = (exists \/ analyze_btn)
    /\ UNCHANGED <<panel_enabled, export_btn, split_btn, gui_result, workers,
                   split_workers, segmenterFrame>>

\* The browse button of the panel, which set_enabled(False) disables
BrowseVideo ==
    /\ panel_enabled
    /\ gui_event' = "browse"
    /\ \E path \in Videos, exists \in BOOLEAN : set_video_path(path, exists)

\* File > Open: a menu action, which nothing disables
OpenVideo ==
    /\ gui_event' = "menu_open"
    /\ \E path \in Videos, exists \in BOOLEAN : set_video_path(path, exists)

\* A video file dropped on the panel, which accepts drops at all times
DropVideo ==
    /\ gui_event' = "drop"
    /\ \E path \in Videos, exists \in BOOLEAN : set_video_path(path, exists)

\* MainWindow._start_analyze, the slot of ConfigPanel.analyze_requested
StartAnalyze ==
    /\ Len(workers) < MaxWorkers
    /\ SetControls(set_controls_enabled(FALSE, gui_video, gui_result))
    /\ gui_result' = "none"
    /\ workers' = Append(workers, gui_video)
    /\ UNCHANGED <<gui_video, split_workers, segmenterFrame>>

\* MainWindow._trigger_analyze, then ConfigPanel._start_analyze
trigger_analyze ==
    /\ gui_video # ""
    /\ StartAnalyze

\* A click on the Analyze button
ClickAnalyze ==
    /\ analyze_btn
    /\ gui_event' = "analyze_button"
    /\ trigger_analyze

\* Analysis > Run Analysis (Ctrl+Return): a menu action, which nothing disables
MenuRunAnalysis ==
    /\ gui_event' = "menu_run_analysis"
    /\ trigger_analyze

\* AnalyzeWorker.run ends with finished(result); MainWindow._on_analyze_finished
OnAnalyzeFinished ==
    \E w \in 1..Len(workers), kind \in ResultKinds :
        /\ gui_event' = "finished"
        /\ workers' = RemoveAt(workers, w)
        /\ gui_result' = kind
        /\ SetControls(set_controls_enabled(TRUE, gui_video, kind))
        /\ UNCHANGED <<gui_video, split_workers, segmenterFrame>>

\* AnalyzeWorker.run ends with error(message); MainWindow._on_error
OnError ==
    \E w \in 1..Len(workers) :
        /\ gui_event' = "error"
        /\ workers' = RemoveAt(workers, w)
        /\ SetControls(set_controls_enabled(TRUE, gui_video, gui_result))
        /\ UNCHANGED <<gui_video, gui_result, split_workers, segmenterFrame>>

\* MainWindow._split_video with an output directory chosen in the dialog
gui_split_video ==
    /\ gui_result = "splits"
    /\ split_workers < MaxWorkers
    /\ SetControls(set_controls_enabled(FALSE, gui_video, gui_result))
    /\ split_workers' = split_workers + 1
    /\ UNCHANGED <<gui_video, gui_result, workers, segmenterFrame>>

\* A click on the Split Video button
ClickSplit ==
    /\ split_btn
    /\ gui_event' = "split_button"
    /\ gui_split_video

\* Analysis > Split Video (Ctrl+Shift+S): a menu action, which nothing disables
MenuSplitVideo ==
    /\ gui_event' = "menu_split"
    /\ gui_split_video

\* SplitWorker ends; MainWindow._on_split_finished or _on_split_error
OnSplitDone ==
    /\ split_workers > 0
    /\ gui_event' = "split_done"
    /\ split_workers' = split_workers - 1
    /\ SetControls(set_controls_enabled(TRUE, gui_video, gui_result))
    /\ UNCHANGED <<gui_video, gui_result, workers, segmenterFrame>>

GuiInit ==
    /\ stage = "constructed"
    /\ min_segment_duration = 2 * HalfSecond
    /\ shot_changes = <<>>
    /\ speech_segments = <<>>
    /\ speaker_labels = None
    /\ video_duration = EndOfVideo
    /\ NoResult
    /\ PipelineIdle
    /\ RepeatIdle
    /\ ClusterIdle
    /\ GuiIdle

GuiNext ==
    \/ BrowseVideo
    \/ OpenVideo
    \/ DropVideo
    \/ ClickAnalyze
    \/ MenuRunAnalysis
    \/ OnAnalyzeFinished
    \/ OnError
    \/ ClickSplit
    \/ MenuSplitVideo
    \/ OnSplitDone

GuiSpec == GuiInit /\ [][GuiNext]_vars

\* C30: at most one analysis is in flight: while an AnalyzeWorker's signal is
\* not handled yet no second AnalyzeWorker is started, and the Analyze button
\* and the panel's controls are enabled only when no AnalyzeWorker is running.
C30_OneAnalysisInFlight ==
    /\ Len(workers) <= 1
    /\ workers # <<>> => ~analyze_btn /\ ~panel_enabled

====
